---- MODULE Spec2Model ----
(***************************************************************************)
(* Model of Rainbow3D::UniquePtr (src/UniquePtr.h): the primary template   *)
(* (scalar variant) and the partial specialisation for T[] (array          *)
(* variant).                                                               *)
(*                                                                         *)
(* A handle is a record [live, ptr, d, o]: ptr is the member _ptr (Null    *)
(* for nullptr), d is the member _d.  arr says which of the two class      *)
(* templates the handles of a run are instances of, byRef whether their    *)
(* deleter_type is a class Del or the reference type Del& (one             *)
(* parameterisation per run: move and Swap only relate handles of the same *)
(* one).  The releaser is an instrumented callable carrying an integer     *)
(* tag; moving it copies the tag.  When _d is a reference, o is the        *)
(* releaser object of the client it is bound to and d the tag that object  *)
(* carries: assigning to _d overwrites the object, and so what every       *)
(* handle bound to it holds.  Every invocation _d(p) made by an operation is *)
(* recorded in the operation's calls: the releaser that ran, the pointer   *)
(* it was given and what Get() on the invoking handle returns while the    *)
(* releaser runs.  log is the sequence of all pointers released so far.    *)
(* A releaser with the tag ReentrantDeleter calls Reset() on the invoking  *)
(* handle from inside the invocation; a chain of MaxReentry nested         *)
(* invocations is cut and recorded as overflow (the recursion never ends). *)
(*                                                                         *)
(* attempt is the compile-time side: the use of a constrained member of    *)
(* some instantiation, whether its requires-clause admits it (admitted)    *)
(* and whether the use compiles (ok); a use that compiles also runs.       *)
(*                                                                         *)
(* The client owns a pool of raw pointers (client).  A pointer leaves the  *)
(* pool when it is handed to a handle and comes back when Release()        *)
(* returns it, so the client never hands over a pointer that a live        *)
(* handle holds or that has been released.                                 *)
(***************************************************************************)
EXTENDS Integers, Sequences, FiniteSets

\* ---- bounds ----
NumHandles == 2
MaxPtr == 2
NumDeleters == 1
BufLen == 3
MaxReentry == 3

\* ---- program constants ----
Null == 0
TEMP == 0
\* what a call of a member whose body does not compile yields
IllFormed == -1

Handles == 1..NumHandles
\* the move-only runs use one more handle than the general runs
MoveHandles == 1..(NumHandles + 1)
HandleIds == {TEMP} \cup MoveHandles
Ptrs == 1..MaxPtr
Deleters == 1..NumDeleters
DefaultDeleter == Null
\* the tag of a releaser that, while it runs, calls Reset() on the handle
\* that invoked it
ReentrantDeleter == NumDeleters + 1
\* the releaser objects of the client a Del& member can be bound to; a
\* member held by value is bound to none
NoObject == 0
Objects == 1..2

VARIABLES arr, byRef, handles, log, client, last, attempt
vars == <<arr, byRef, handles, log, client, last, attempt>>

\* storage of an object that is not (or no longer) constructed
Dead == [live |-> FALSE, ptr |-> Null, d |-> DefaultDeleter, o |-> NoObject]

NoOp == [op |-> "none", h |-> TEMP, r |-> TEMP, arg |-> Null, ret |-> Null,
         preH |-> Dead, preR |-> Dead, calls |-> <<>>, overflow |-> FALSE,
         after |-> [op |-> "none", arg |-> Null, ret |-> Null]]

\* the machine state the member functions act on
Cur == [hs |-> handles, calls |-> <<>>, overflow |-> FALSE]

RECURSIVE Reset(_, _, _), ResetArrNull(_, _)

\* _d(p) invoked by handle h; a re-entrant releaser then calls h.Reset()
Invoke(m, h, p) ==
  LET m1 == [m EXCEPT !.calls = Append(@, [d |-> m.hs[h].d, p |-> p,
                                           seen |-> m.hs[h].ptr])]
  IN IF m.hs[h].d # ReentrantDeleter THEN m1
     ELSE IF Len(m1.calls) >= MaxReentry THEN [m1 EXCEPT !.overflow = TRUE]
     ELSE IF arr THEN ResetArrNull(m1, h) ELSE Reset(m1, h, Null)

\* _d = std::forward<E>(r._d): a member held by value is overwritten; through
\* a reference member the object it is bound to is overwritten
AssignDeleter(m, dst, src) ==
  LET v == m.hs[src].d
  IN IF m.hs[dst].o = NoObject THEN [m EXCEPT !.hs[dst].d = v]
     ELSE [m EXCEPT !.hs = [g \in DOMAIN m.hs |->
                              IF m.hs[g].o = m.hs[dst].o
                              THEN [m.hs[g] EXCEPT !.d = v]
                              ELSE m.hs[g]]]

\* ---- scalar variant ----

\* variant of Release that returns the pointer but leaves _ptr set
ReleaseNoClear(m, h) ==
  [m |-> m, ret |-> m.hs[h].ptr]

\* pointer Release() noexcept
Release(m, h) ==
  [m |-> [m EXCEPT !.hs[h].ptr = Null], ret |-> m.hs[h].ptr]

\* variant of Reset that releases the old pointer before storing the new one
ResetReleaseFirst(m, h, p) ==
  LET m1 == IF m.hs[h].ptr # Null THEN Invoke(m, h, m.hs[h].ptr) ELSE m
  IN [m1 EXCEPT !.hs[h].ptr = p]

\* void Reset(pointer _Ptr = nullptr) noexcept
Reset(m, h, p) ==
  LET old == m.hs[h].ptr
      m1  == [m EXCEPT !.hs[h].ptr = p]
  IN IF old # Null THEN Invoke(m1, h, old) ELSE m1

\* variant of the move constructor that reads r.Get() instead of r.Release()
MoveCtorCopy(m, dst, src) ==
  [m EXCEPT !.hs[dst] = [live |-> TRUE, ptr |-> m.hs[src].ptr,
                         d |-> m.hs[src].d, o |-> m.hs[src].o]]

\* UniquePtr(UniquePtr&& r): _ptr(r.Release()), _d(forward(r._d))
MoveCtor(m, dst, src) ==
  LET rel == Release(m, src)
  IN [rel.m EXCEPT !.hs[dst] = [live |-> TRUE, ptr |-> rel.ret,
                                d |-> rel.m.hs[src].d, o |-> rel.m.hs[src].o]]

\* variant of move assignment that leaves the source's pointer in place
MoveAssignNoSteal(m, dst, src) ==
  IF dst # src
  THEN LET m1 == Reset(m, dst, m.hs[src].ptr)
       IN AssignDeleter(m1, dst, src)
  ELSE m

\* variant of move assignment without the identity test, written as
\* Reset(r.Get()); r.Release();
MoveAssignSelfReset(m, dst, src) ==
  LET m1 == Reset(m, dst, m.hs[src].ptr)
      m2 == Release(m1, src).m
  IN AssignDeleter(m2, dst, src)

\* UniquePtr& operator=(UniquePtr&& r)
MoveAssign(m, dst, src) ==
  IF dst # src
  THEN LET rel == Release(m, src)
           m1  == Reset(rel.m, dst, rel.ret)
       IN AssignDeleter(m1, dst, src)
  ELSE m

\* UniquePtr& operator=(std::nullptr_t)
AssignNull(m, h) == Reset(m, h, Null)

\* variant of the destructor without the null test
DtorUnguarded(m, h) ==
  [Invoke(m, h, m.hs[h].ptr) EXCEPT !.hs[h] = Dead]

\* ~UniquePtr()
Dtor(m, h) ==
  LET m1 == IF m.hs[h].ptr # Null THEN Invoke(m, h, m.hs[h].ptr) ELSE m
  IN [m1 EXCEPT !.hs[h] = Dead]

\* void Swap(UniquePtr& other)
Swap(m, this, other) ==
  LET m1 == MoveCtor(m, TEMP, other)
      m2 == MoveAssign(m1, other, this)
      m3 == MoveAssign(m2, this, TEMP)
  IN Dtor(m3, TEMP)

\* ---- array variant ----

\* variant of Release that also runs the releaser, as Reset() does
ReleaseArrInvokes(m, h) ==
  LET m1 == IF m.hs[h].ptr # Null THEN Invoke(m, h, m.hs[h].ptr) ELSE m
  IN [m |-> [m1 EXCEPT !.hs[h].ptr = Null], ret |-> m.hs[h].ptr]

\* pointer Release() noexcept
ReleaseArr(m, h) ==
  [m |-> [m EXCEPT !.hs[h].ptr = Null], ret |-> m.hs[h].ptr]

\* template <typename U> void Reset(U p) noexcept
ResetArr(m, h, p) ==
  LET m1 == IF m.hs[h].ptr # Null THEN Invoke(m, h, m.hs[h].ptr) ELSE m
  IN [m1 EXCEPT !.hs[h].ptr = p]

\* variant of Reset(nullptr) that drops the old pointer without releasing it
ResetArrNullLeak(m, h) ==
  [m EXCEPT !.hs[h].ptr = Null]

\* void Reset(std::nullptr_t p = nullptr) noexcept
ResetArrNull(m, h) ==
  LET m1 == IF m.hs[h].ptr # Null THEN Invoke(m, h, m.hs[h].ptr) ELSE m
  IN [m1 EXCEPT !.hs[h].ptr = Null]

\* UniquePtr(UniquePtr&& r) { _ptr = r.Release(); _d = forward(r._d); }
MoveCtorArr(m, dst, src) ==
  LET rel == ReleaseArr(m, src)
  IN [rel.m EXCEPT !.hs[dst] = [live |-> TRUE, ptr |-> rel.ret,
                                d |-> rel.m.hs[src].d, o |-> rel.m.hs[src].o]]

\* variant of move assignment that assigns the releaser before Reset runs
MoveAssignArrDeleterFirst(m, dst, src) ==
  IF dst # src
  THEN LET m1  == AssignDeleter(m, dst, src)
           rel == ReleaseArr(m1, src)
       IN ResetArr(rel.m, dst, rel.ret)
  ELSE m

\* UniquePtr& operator=(UniquePtr&& r)
MoveAssignArr(m, dst, src) ==
  IF dst # src
  THEN LET rel == ReleaseArr(m, src)
           m1  == ResetArr(rel.m, dst, rel.ret)
       IN AssignDeleter(m1, dst, src)
  ELSE m

\* UniquePtr& operator=(std::nullptr_t)
AssignNullArr(m, h) == ResetArrNull(m, h)

\* ~UniquePtr()
DtorArr(m, h) ==
  LET m1 == IF m.hs[h].ptr # Null THEN Invoke(m, h, m.hs[h].ptr) ELSE m
  IN [m1 EXCEPT !.hs[h] = Dead]

\* variant of Swap whose temporary copies other's pointer and releaser
\* without taking them
SwapArrTempCopy(m, this, other) ==
  LET m1 == [m EXCEPT !.hs[TEMP] = [live |-> TRUE, ptr |-> m.hs[other].ptr,
                                    d |-> m.hs[other].d, o |-> m.hs[other].o]]
      m2 == MoveAssignArr(m1, other, this)
      m3 == MoveAssignArr(m2, this, TEMP)
  IN DtorArr(m3, TEMP)

\* void Swap(UniquePtr& other)
SwapArr(m, this, other) ==
  LET m1 == MoveCtorArr(m, TEMP, other)
      m2 == MoveAssignArr(m1, other, this)
      m3 == MoveAssignArr(m2, this, TEMP)
  IN DtorArr(m3, TEMP)

\* T& operator[](std::size_t i) const { return Get[i]; }
\* The body subscripts the member function Get itself, not the pointer
\* Get() returns: the expression designates no element and the member does
\* not compile once it is used.
IndexArr(m, h, i) ==
  [m |-> m, ret |-> IllFormed]

\* ---- the two class templates: which member a call on h resolves to ----
ReleaseOf(m, h) == IF arr THEN ReleaseArr(m, h) ELSE Release(m, h)
ResetOf(m, h, p) == IF arr THEN ResetArr(m, h, p) ELSE Reset(m, h, p)
ResetNullOf(m, h) == IF arr THEN ResetArrNull(m, h) ELSE Reset(m, h, Null)
MoveCtorOf(m, dst, src) ==
  IF arr THEN MoveCtorArr(m, dst, src) ELSE MoveCtor(m, dst, src)
MoveAssignOf(m, dst, src) ==
  IF arr THEN MoveAssignArr(m, dst, src) ELSE MoveAssign(m, dst, src)
AssignNullOf(m, h) == IF arr THEN AssignNullArr(m, h) ELSE AssignNull(m, h)
DtorOf(m, h) == IF arr THEN DtorArr(m, h) ELSE Dtor(m, h)
SwapOf(m, a, b) == IF arr THEN SwapArr(m, a, b) ELSE Swap(m, a, b)

\* ---- constructors ----

\* UniquePtr() / UniquePtr(std::nullptr_t): _ptr(nullptr), _d()
CtorEmpty(m, h) ==
  [m EXCEPT !.hs[h] = [live |-> TRUE, ptr |-> Null,
                       d |-> DefaultDeleter, o |-> NoObject]]

\* explicit UniquePtr(pointer p): _ptr(p), _d()
CtorPtr(m, h, p) ==
  [m EXCEPT !.hs[h] = [live |-> TRUE, ptr |-> p,
                       d |-> DefaultDeleter, o |-> NoObject]]

\* UniquePtr(pointer p, const deleter_type& d) / (pointer p, deleter_type&& d)
\* copy the releaser; UniquePtr(pointer p, deleter_type d) with deleter_type
\* a reference binds _d to the object o, which carries the tag d
CtorPtrDeleter(m, h, p, d, o) ==
  [m EXCEPT !.hs[h] = [live |-> TRUE, ptr |-> p, d |-> d, o |-> o]]

\* ---- instantiations: element type, form and releaser type ----
Classes == {"Base", "Derived"}
ElemTypes == [cls : Classes, const : BOOLEAN]
\* releaser types: std::default_delete of the handle's own element and form,
\* a class Del, a class with a nested pointer alias, a class without a
\* default constructor, a plain function pointer, and Del&
Releasers == {"default", "functor", "fancy", "nodefault", "fnptr", "ref"}
Params == [arr : BOOLEAN, elem : ElemTypes, del : Releasers]

\* pointer types: the alias a releaser declares, or a raw pointer to elem
FancyPtr == [kind |-> "fancy", elem |-> [cls |-> "Base", const |-> FALSE]]
RawPtr(e) == [kind |-> "raw", elem |-> e]
NullptrT == [kind |-> "nullptr_t", elem |-> [cls |-> "Base", const |-> FALSE]]
ArgTypes == {FancyPtr, NullptrT} \cup {RawPtr(e) : e \in ElemTypes}

\* _Get_deleter_pointer_type<element_type, remove_reference_t<deleter_type>>
PointerOf(P) == IF P.del = "fancy" THEN FancyPtr ELSE RawPtr(P.elem)

\* std::is_pointer_v<deleter_type>
IsPointer(R) == R = "fnptr"
\* std::is_default_constructible_v<deleter_type>
IsDefaultConstructible(R) == R \in {"default", "functor", "fancy", "fnptr"}
\* std::is_lvalue_reference_v / std::is_reference_v<deleter_type>
IsReference(R) == R = "ref"

\* qualification conversion: cv-qualifiers may be added, never dropped
QualConv(u, e) == u.const => e.const
\* std::is_convertible_v<P1, P2> on stored pointer types: derived-to-base
\* and added qualifiers for raw pointers, identity for the alias
PtrConvertible(p, q) ==
  IF p.kind = "fancy" \/ q.kind = "fancy" THEN p = q
  ELSE /\ (p.elem.cls = q.elem.cls \/ (p.elem.cls = "Derived" /\ q.elem.cls = "Base"))
       /\ QualConv(p.elem, q.elem)
\* std::is_convertible_v<U(*)[], element_type(*)[]>: same class only
ArrayPtrConvertible(u, e) == u.cls = e.cls /\ QualConv(u, e)

\* std::is_convertible<E, deleter_type>, E the releaser of src
DeleterConvertible(src, dst) ==
  CASE dst.del = "default" ->
         /\ src.del = "default"
         /\ src.arr = dst.arr
         /\ IF dst.arr THEN ArrayPtrConvertible(src.elem, dst.elem)
            ELSE PtrConvertible(RawPtr(src.elem), RawPtr(dst.elem))
    [] dst.del = "functor" -> src.del \in {"functor", "ref"}
    [] dst.del = "ref" -> src.del = "ref"
    [] dst.del = "fnptr" -> src.del = "fnptr" /\ src.elem = dst.elem
    [] OTHER -> src.del = dst.del

\* std::is_same<deleter_type, E>
\* default_delete<T> / default_delete<T[]> names the element and the form,
\* void(*)(T*) the element only
DeleterSame(src, dst) ==
  /\ src.del = dst.del
  /\ src.del = "default" => (src.elem = dst.elem /\ src.arr = dst.arr)
  /\ src.del = "fnptr" => src.elem = dst.elem

\* std::is_assignable_v<deleter_type&, E&&>
DeleterAssignable(dst, src) ==
  CASE dst.del = "default" -> DeleterConvertible(src, dst)
    [] dst.del \in {"functor", "ref"} -> src.del \in {"functor", "ref"}
    [] dst.del = "fnptr" -> src.del = "fnptr" /\ src.elem = dst.elem
    [] OTHER -> src.del = dst.del

\* ---- requires-clauses of the scalar variant ----

\* variant of the clause without the is_pointer_v test
PtrCtorAvailNoPointerTest(P) == IsDefaultConstructible(P.del)

\* constexpr UniquePtr() noexcept
DefaultCtorAvail(P) == ~IsPointer(P.del) /\ IsDefaultConstructible(P.del)
\* constexpr UniquePtr(std::nullptr_t) noexcept
NullCtorAvail(P) == ~IsPointer(P.del) /\ IsDefaultConstructible(P.del)
\* explicit UniquePtr(pointer p) noexcept
PtrCtorAvail(P) == ~IsPointer(P.del) /\ IsDefaultConstructible(P.del)

\* UniquePtr(UniquePtr<U, E>&& r)
ConvCtorAvail(dst, src) ==
  /\ PtrConvertible(PointerOf(src), PointerOf(dst))
  /\ ~src.arr
  /\ IF IsReference(dst.del) THEN DeleterSame(src, dst)
     ELSE DeleterConvertible(src, dst)

\* UniquePtr& operator=(UniquePtr<U, E>&& r)
ConvAssignAvail(dst, src) ==
  /\ PtrConvertible(PointerOf(src), PointerOf(dst))
  /\ DeleterAssignable(dst, src)

\* ---- requires-clauses of the array variant ----

\* U is pointer, or nullptr_t, or pointer is element_type* and U is a
\* pointer V* with V(*)[] convertible to element_type(*)[]
ArrConforms(P, U) ==
  \/ U = PointerOf(P)
  \/ U = NullptrT
  \/ /\ PointerOf(P) = RawPtr(P.elem)
     /\ U.kind = "raw"
     /\ ArrayPtrConvertible(U.elem, P.elem)

\* constexpr UniquePtr() noexcept
ArrDefaultCtorAvail(P) == ~IsPointer(P.del) /\ IsDefaultConstructible(P.del)
\* constexpr UniquePtr(std::nullptr_t) noexcept
ArrNullCtorAvail(P) == ~IsPointer(P.del) /\ IsDefaultConstructible(P.del)
\* template <typename U> explicit UniquePtr(U p) noexcept
ArrPtrCtorAvail(P, U) ==
  /\ ~IsPointer(P.del)
  /\ IsDefaultConstructible(P.del)
  /\ ArrConforms(P, U)

\* UniquePtr(UniquePtr<U, E>&& r)
ArrConvCtorAvail(dst, src) ==
  /\ src.arr
  /\ PointerOf(dst) = RawPtr(dst.elem)
  /\ PointerOf(src) = RawPtr(src.elem)
  /\ ArrayPtrConvertible(src.elem, dst.elem)
  /\ IF IsReference(dst.del) THEN DeleterSame(src, dst)
     ELSE DeleterConvertible(src, dst)

\* UniquePtr& operator=(UniquePtr<U, E>&& r)
ArrConvAssignAvail(dst, src) ==
  /\ src.arr
  /\ PointerOf(dst) = RawPtr(dst.elem)
  /\ PointerOf(src) = RawPtr(src.elem)
  /\ ArrayPtrConvertible(src.elem, dst.elem)
  /\ DeleterAssignable(dst, src)

\* ---- bodies of the constrained members ----

\* UniquePtr(pointer p, const deleter_type& d), (pointer p, deleter_type&& d)
\* and, for a reference deleter_type, (pointer p, deleter_type d): every
\* releaser type here can be copied, and a reference binds to its object
PtrDeleterCtorAvail(P) ==
  IF IsReference(P.del) THEN TRUE ELSE P.del \in Releasers

\* UniquePtr(UniquePtr&& r): the scalar one initialises _d in its member
\* initialiser list, the array one default-initialises _d and assigns to it
\* in its body
MoveCtorCompiles(P) == P.arr => IsDefaultConstructible(P.del)

\* UniquePtr(UniquePtr<U, E>&& r) of both variants default-initialises _d
\* and assigns to it in its body
ConvCtorCompiles(dst, src) ==
  /\ IsDefaultConstructible(dst.del)
  /\ DeleterAssignable(dst, src)

\* UniquePtr(UniquePtr<U, E>&& r) { _ptr = r.Release(); _d = forward<E>(..); }
ConvMoveCtor(m, dst, src) ==
  LET rel == Release(m, src)
  IN [rel.m EXCEPT !.hs[dst] = [live |-> TRUE, ptr |-> rel.ret,
                                d |-> rel.m.hs[src].d, o |-> NoObject]]

\* UniquePtr<T[]>(UniquePtr<U, E>&& r)
ConvMoveCtorArr(m, dst, src) ==
  LET rel == ReleaseArr(m, src)
  IN [rel.m EXCEPT !.hs[dst] = [live |-> TRUE, ptr |-> rel.ret,
                                d |-> rel.m.hs[src].d, o |-> NoObject]]

\* UniquePtr& operator=(UniquePtr<U, E>&& r) { Reset(r.Release()); _d = ..; }
\* r is a handle of either form
ConvMoveAssign(m, dst, src, srcArr) ==
  LET rel == IF srcArr THEN ReleaseArr(m, src) ELSE Release(m, src)
      m1  == Reset(rel.m, dst, rel.ret)
  IN AssignDeleter(m1, dst, src)

\* UniquePtr<T[]>& operator=(UniquePtr<U, E>&& r)
ConvMoveAssignArr(m, dst, src) ==
  LET rel == ReleaseArr(m, src)
      m1  == ResetArr(rel.m, dst, rel.ret)
  IN AssignDeleter(m1, dst, src)

NoAttempt == [op |-> "none", admitted |-> FALSE, ok |-> FALSE, u |-> NullptrT,
              dst |-> [arr |-> FALSE, elem |-> [cls |-> "Base", const |-> FALSE],
                       del |-> "default"],
              src |-> [arr |-> FALSE, elem |-> [cls |-> "Base", const |-> FALSE],
                       del |-> "default"]]

\* ---- bookkeeping of the last operation ----
PtrsOf(calls) == [i \in 1..Len(calls) |-> calls[i].p]

\* what a destruction remembers of the operation before it: a Reset, an
\* assignment from null or a Release on the handle being destroyed
Remembered == {"Reset", "ResetNull", "AssignNull", "Release"}
Summary(h) ==
  IF last.h = h /\ last.op \in Remembered
  THEN [op |-> last.op, arg |-> last.arg, ret |-> last.ret]
  ELSE NoOp.after

Record(op, h, r, arg, ret, m) ==
  [op |-> op, h |-> h, r |-> r, arg |-> arg, ret |-> ret,
   preH |-> handles[h], preR |-> handles[r], calls |-> m.calls,
   overflow |-> m.overflow,
   after |-> IF op = "Destroy" THEN Summary(h) ELSE NoOp.after]

CommitRun(m) ==
  /\ handles' = m.hs
  /\ log' = log \o PtrsOf(m.calls)
  /\ arr' = arr
  /\ byRef' = byRef

Commit(m) ==
  /\ CommitRun(m)
  /\ attempt' = attempt

\* the instantiation the handles of a run are instances of
RunParam == [arr |-> arr, elem |-> [cls |-> "Base", const |-> FALSE],
             del |-> IF byRef THEN "ref" ELSE "functor"]

\* a reference member bound to an object holds the tag the object carries:
\* the one every live handle bound to the same object holds
Bound(o, d) ==
  \A g \in DOMAIN handles :
    (handles[g].live /\ o # NoObject /\ handles[g].o = o) => handles[g].d = d

Init ==
  /\ arr \in BOOLEAN
  /\ byRef \in BOOLEAN
  /\ handles = [h \in HandleIds |-> Dead]
  /\ log = <<>>
  /\ client = Ptrs
  /\ last = NoOp
  /\ attempt = NoAttempt

\* a run with reference releasers has two handles, each bound to its own
\* object or both to the same one
InRun(h) == byRef => h \in Objects

\* ---- actions ----
DefaultConstruct(h) ==
  /\ ~handles[h].live
  /\ IF arr THEN ArrDefaultCtorAvail(RunParam) ELSE DefaultCtorAvail(RunParam)
  /\ LET m == CtorEmpty(Cur, h)
     IN Commit(m) /\ last' = Record("DefaultConstruct", h, h, Null, Null, m)
  /\ UNCHANGED client

PtrConstruct(h, p) ==
  /\ ~handles[h].live
  /\ IF arr THEN ArrPtrCtorAvail(RunParam, PointerOf(RunParam))
     ELSE PtrCtorAvail(RunParam)
  /\ p \in client \cup {Null}
  /\ LET m == CtorPtr(Cur, h, p)
     IN Commit(m) /\ last' = Record("PtrConstruct", h, h, p, Null, m)
  /\ client' = client \ {p}

PtrDeleterConstruct(h, p, d, o) ==
  /\ ~handles[h].live
  /\ InRun(h)
  /\ PtrDeleterCtorAvail(RunParam)
  /\ p \in client \cup {Null}
  /\ o \in (IF byRef THEN Objects ELSE {NoObject})
  /\ Bound(o, d)
  /\ LET m == CtorPtrDeleter(Cur, h, p, d, o)
     IN Commit(m) /\ last' = Record("PtrDeleterConstruct", h, h, p, Null, m)
  /\ client' = client \ {p}

MoveConstruct(dst, src) ==
  /\ MoveCtorCompiles(RunParam)
  /\ ~handles[dst].live
  /\ InRun(dst)
  /\ handles[src].live
  /\ LET m == MoveCtorOf(Cur, dst, src)
     IN Commit(m) /\ last' = Record("MoveConstruct", dst, src, Null, Null, m)
  /\ UNCHANGED client

DoMoveAssign(dst, src) ==
  /\ handles[dst].live
  /\ handles[src].live
  /\ LET m == MoveAssignOf(Cur, dst, src)
     IN Commit(m) /\ last' = Record("MoveAssign", dst, src, Null, Null, m)
  /\ UNCHANGED client

DoAssignNull(h) ==
  /\ handles[h].live
  /\ LET m == AssignNullOf(Cur, h)
     IN Commit(m) /\ last' = Record("AssignNull", h, h, Null, Null, m)
  /\ UNCHANGED client

DoRelease(h) ==
  /\ handles[h].live
  /\ LET rel == ReleaseOf(Cur, h)
     IN /\ Commit(rel.m)
        /\ last' = Record("Release", h, h, Null, rel.ret, rel.m)
        /\ client' = client \cup ({rel.ret} \ {Null})

DoReset(h, p) ==
  /\ handles[h].live
  /\ p \in client \cup {Null}
  /\ LET m == ResetOf(Cur, h, p)
     IN Commit(m) /\ last' = Record("Reset", h, h, p, Null, m)
  /\ client' = client \ {p}

DoResetNull(h) ==
  /\ handles[h].live
  /\ LET m == ResetNullOf(Cur, h)
     IN Commit(m) /\ last' = Record("ResetNull", h, h, Null, Null, m)
  /\ UNCHANGED client

\* Swap builds its temporary with the move constructor
DoSwap(a, b) ==
  /\ MoveCtorCompiles(RunParam)
  /\ handles[a].live
  /\ handles[b].live
  /\ LET m == SwapOf(Cur, a, b)
     IN Commit(m) /\ last' = Record("Swap", a, b, Null, Null, m)
  /\ UNCHANGED client

DoIndex(h, i) ==
  /\ arr
  /\ handles[h].live
  /\ handles[h].ptr # Null
  /\ i \in 0..(BufLen - 1)
  /\ LET ix == IndexArr(Cur, h, i)
     IN Commit(ix.m) /\ last' = Record("Index", h, h, i, ix.ret, ix.m)
  /\ UNCHANGED client

Destroy(h) ==
  /\ handles[h].live
  /\ LET m == DtorOf(Cur, h)
     IN Commit(m) /\ last' = Record("Destroy", h, h, Null, Null, m)
  /\ UNCHANGED client

Next ==
  \/ \E h \in Handles : DefaultConstruct(h)
  \/ \E h \in Handles, p \in Ptrs \cup {Null} :
        PtrConstruct(h, p)
  \/ \E h \in Handles, p \in Ptrs \cup {Null},
        d \in Deleters \cup {DefaultDeleter}, o \in Objects \cup {NoObject} :
        PtrDeleterConstruct(h, p, d, o)
  \/ \E dst \in Handles, src \in Handles : MoveConstruct(dst, src)
  \/ \E dst \in Handles, src \in Handles : DoMoveAssign(dst, src)
  \/ \E h \in Handles : DoAssignNull(h)
  \/ \E h \in Handles : DoRelease(h)
  \/ \E h \in Handles, p \in Ptrs \cup {Null} : DoReset(h, p)
  \/ \E h \in Handles : DoResetNull(h)
  \/ \E a \in Handles, b \in Handles : DoSwap(a, b)
  \/ \E h \in Handles, i \in 0..(BufLen - 1) : DoIndex(h, i)
  \/ \E h \in Handles : Destroy(h)

Spec == Init /\ [][Next]_vars

\* ---- runs made of one root construction, moves and destructions ----
RootConstruct ==
  /\ client = Ptrs
  /\ \E h \in MoveHandles, p \in Ptrs, d \in Deleters,
        o \in Objects \cup {NoObject} : PtrDeleterConstruct(h, p, d, o)

NextMoves ==
  \/ RootConstruct
  \/ \E dst \in MoveHandles, src \in MoveHandles : MoveConstruct(dst, src)
  \/ \E dst \in MoveHandles, src \in MoveHandles : DoMoveAssign(dst, src)
  \/ \E h \in MoveHandles : Destroy(h)

SpecMoves == Init /\ [][NextMoves]_vars

\* ---- runs whose handles carry the re-entrant releaser ----
\* a run ends when a chain of nested invocations was cut
ReentrantConstruct(h, p, o) ==
  ~last.overflow /\ PtrDeleterConstruct(h, p, ReentrantDeleter, o)
ReentrantReset(h, p) == ~last.overflow /\ DoReset(h, p)
ReentrantResetNull(h) == ~last.overflow /\ DoResetNull(h)
ReentrantAssignNull(h) == ~last.overflow /\ DoAssignNull(h)
ReentrantMoveAssign(dst, src) == ~last.overflow /\ DoMoveAssign(dst, src)
ReentrantDestroy(h) == ~last.overflow /\ Destroy(h)

NextReentrant ==
  \/ \E h \in Handles, p \in Ptrs \cup {Null}, o \in Objects \cup {NoObject} :
        ReentrantConstruct(h, p, o)
  \/ \E h \in Handles, p \in Ptrs \cup {Null} : ReentrantReset(h, p)
  \/ \E h \in Handles : ReentrantResetNull(h)
  \/ \E h \in Handles : ReentrantAssignNull(h)
  \/ \E dst \in Handles, src \in Handles : ReentrantMoveAssign(dst, src)
  \/ \E h \in Handles : ReentrantDestroy(h)

SpecReentrant == Init /\ [][NextReentrant]_vars

\* ---- uses of the constrained members of an instantiation ----
\* One use per run, between a destination (this, handle Dst) and a source
\* (r, handle Src) that may be instances of different instantiations:
\* attempt.dst and attempt.src.  A use that compiles runs.
Dst == 1
Src == 2

\* arr and byRef describe the destination
TypeFits(P) == P.arr = arr /\ IsReference(P.del) = byRef

\* UniquePtr<P> h(p, d): an operand of the use.  The destination is given
\* the pointer 1 and a releaser with the default tag, the source the pointer
\* 2 and a releaser with the tag 1; a reference releaser is bound to the
\* operand's own object.
Declare(h, P) ==
  /\ attempt.op = "none"
  /\ ~handles[h].live
  /\ h = Dst => TypeFits(P)
  /\ PtrDeleterCtorAvail(P)
  /\ h \in client
  /\ LET d == IF h = Src THEN 1 ELSE DefaultDeleter
         o == IF IsReference(P.del) THEN h ELSE NoObject
         m == CtorPtrDeleter(Cur, h, h, d, o)
     IN CommitRun(m) /\ last' = Record("PtrDeleterConstruct", h, h, h, Null, m)
  /\ client' = client \ {h}
  /\ attempt' = IF h = Dst THEN [attempt EXCEPT !.dst = P]
                ELSE [attempt EXCEPT !.src = P]

TryDefaultCtor(P) ==
  /\ attempt.op = "none"
  /\ ~handles[Dst].live /\ ~handles[Src].live
  /\ TypeFits(P)
  /\ LET adm == IF P.arr THEN ArrDefaultCtorAvail(P) ELSE DefaultCtorAvail(P)
         m   == IF adm THEN CtorEmpty(Cur, Dst) ELSE Cur
     IN /\ attempt' = [NoAttempt EXCEPT !.op = "DefaultCtor", !.dst = P,
                          !.src = P, !.admitted = adm, !.ok = adm]
        /\ CommitRun(m)
        /\ last' = IF adm THEN Record("DefaultConstruct", Dst, Dst, Null, Null, m)
                   ELSE last
  /\ UNCHANGED client

TryNullCtor(P) ==
  /\ attempt.op = "none"
  /\ ~handles[Dst].live /\ ~handles[Src].live
  /\ TypeFits(P)
  /\ LET adm == IF P.arr THEN ArrNullCtorAvail(P) ELSE NullCtorAvail(P)
         m   == IF adm THEN CtorEmpty(Cur, Dst) ELSE Cur
     IN /\ attempt' = [NoAttempt EXCEPT !.op = "NullCtor", !.dst = P,
                          !.src = P, !.admitted = adm, !.ok = adm]
        /\ CommitRun(m)
        /\ last' = IF adm THEN Record("NullConstruct", Dst, Dst, Null, Null, m)
                   ELSE last
  /\ UNCHANGED client

\* the scalar constructor takes pointer; the array one deduces U from the
\* argument
TryPtrCtor(P, U, p) ==
  /\ attempt.op = "none"
  /\ ~handles[Dst].live /\ ~handles[Src].live
  /\ TypeFits(P)
  /\ ~P.arr => U = PointerOf(P)
  /\ p \in client \cup {Null}
  /\ U = NullptrT => p = Null
  /\ LET adm == IF P.arr THEN ArrPtrCtorAvail(P, U) ELSE PtrCtorAvail(P)
         m   == IF adm THEN CtorPtr(Cur, Dst, p) ELSE Cur
     IN /\ attempt' = [NoAttempt EXCEPT !.op = "PtrCtor", !.dst = P, !.src = P,
                          !.u = U, !.admitted = adm, !.ok = adm]
        /\ CommitRun(m)
        /\ last' = IF adm THEN Record("PtrConstruct", Dst, Dst, p, Null, m)
                   ELSE last
        /\ client' = IF adm THEN client \ {p} ELSE client

\* UniquePtr<dst> x(std::move(y)), y the source
TryConvCtor(dst) ==
  /\ attempt.op = "none"
  /\ handles[Src].live
  /\ ~handles[Dst].live
  /\ TypeFits(dst)
  /\ dst # attempt.src
  /\ LET src == attempt.src
         adm == IF dst.arr THEN ArrConvCtorAvail(dst, src)
                ELSE ConvCtorAvail(dst, src)
         ok  == adm /\ ConvCtorCompiles(dst, src)
         m   == IF ~ok THEN Cur
                ELSE IF dst.arr THEN ConvMoveCtorArr(Cur, Dst, Src)
                ELSE ConvMoveCtor(Cur, Dst, Src)
     IN /\ attempt' = [attempt EXCEPT !.op = "ConvCtor", !.dst = dst,
                          !.admitted = adm, !.ok = ok]
        /\ CommitRun(m)
        /\ last' = IF ok THEN Record("ConvCtor", Dst, Src, Null, Null, m)
                   ELSE last
  /\ UNCHANGED client

\* x = std::move(y), x the destination and y the source
TryConvAssign ==
  /\ attempt.op = "none"
  /\ handles[Src].live
  /\ handles[Dst].live
  /\ attempt.dst # attempt.src
  /\ LET dst == attempt.dst
         src == attempt.src
         adm == IF dst.arr THEN ArrConvAssignAvail(dst, src)
                ELSE ConvAssignAvail(dst, src)
         m   == IF ~adm THEN Cur
                ELSE IF dst.arr THEN ConvMoveAssignArr(Cur, Dst, Src)
                ELSE ConvMoveAssign(Cur, Dst, Src, src.arr)
     IN /\ attempt' = [attempt EXCEPT !.op = "ConvAssign",
                          !.admitted = adm, !.ok = adm]
        /\ CommitRun(m)
        /\ last' = IF adm THEN Record("ConvAssign", Dst, Src, Null, Null, m)
                   ELSE last
  /\ UNCHANGED client

NextAvail ==
  \/ \E h \in {Dst, Src}, P \in Params : Declare(h, P)
  \/ \E P \in Params : TryDefaultCtor(P)
  \/ \E P \in Params : TryNullCtor(P)
  \/ \E P \in Params, U \in ArgTypes, p \in Ptrs \cup {Null} : TryPtrCtor(P, U, p)
  \/ \E dst \in Params : TryConvCtor(dst)
  \/ TryConvAssign

SpecAvail == Init /\ [][NextAvail]_vars

\* ---- vocabulary of the properties ----
Live == {h \in HandleIds : handles[h].live}
Holders(x) == {h \in Live : handles[h].ptr = x}
TimesReleased(x) == Cardinality({i \in 1..Len(log) : log[i] = x})
Released == {log[i] : i \in 1..Len(log)}
OnceOn(x) == IF x # Null THEN <<x>> ELSE <<>>
ResetOps == {"Reset", "ResetNull", "AssignNull"}
MoveOps == {"MoveConstruct", "MoveAssign"}

\* C1: in a run made of one root construction from a non-null pointer x,
\* move constructions, move assignments and destructions, at most one live
\* handle holds x at any time, x is never released twice, and once every
\* handle has been destroyed the releaser has run exactly once, on x.
C1_SingleOwnerSingleRelease ==
  \A x \in Ptrs \ client :
    /\ Cardinality(Holders(x)) <= 1
    /\ TimesReleased(x) <= 1
    /\ Live = {} => (TimesReleased(x) = 1 /\ Len(log) = 1)

\* every handle is gone, the one destroyed last was empty (it was moved
\* from, or move-constructed from an empty handle) and x was released once
C1_Witness ==
  /\ client # Ptrs
  /\ Live = {}
  /\ last.op = "Destroy"
  /\ last.calls = <<>>
  /\ last.preH.live
  /\ Len(log) = 1

\* C2: with a client that only hands over pointers no live handle holds and
\* that have not been released, every live handle stores null or a pointer
\* that has not been released, and no two live handles store the same
\* non-null pointer.
C2_OwnershipInvariant ==
  \A h \in Live :
    \/ handles[h].ptr = Null
    \/ /\ handles[h].ptr \notin Released
       /\ Holders(handles[h].ptr) = {h}

\* a move assignment released the destination's pointer and the destination
\* now owns the source's, next to a moved-from source
C2_Witness ==
  /\ last.op = "MoveAssign"
  /\ last.calls # <<>>
  /\ handles[last.h].ptr # Null
  /\ handles[last.r].live

\* C3: scalar Reset(new) on a handle holding a non-null old pointer runs the
\* releaser on old while Get() on the handle already returns new (null for
\* Reset()), never old.
C3_ScalarResetInstallsFirst ==
  (/\ ~arr
   /\ last.op \in {"Reset", "ResetNull"}
   /\ last.preH.ptr # Null)
  => /\ Len(last.calls) = 1
     /\ last.calls[1].p = last.preH.ptr
     /\ last.calls[1].seen = last.arg
     /\ last.calls[1].seen # last.preH.ptr

C3_Witness ==
  /\ ~arr
  /\ last.op = "Reset"
  /\ last.preH.ptr # Null
  /\ last.arg # Null
  /\ last.calls # <<>>

\* C4: both Reset overloads of the array variant run the releaser on the old
\* buffer while the handle's stored pointer already equals the new value.
C4_ArrayResetInstallsFirst ==
  (/\ arr
   /\ last.op \in {"Reset", "ResetNull"}
   /\ last.preH.ptr # Null)
  => /\ Len(last.calls) = 1
     /\ last.calls[1].p = last.preH.ptr
     /\ last.calls[1].seen = last.arg
     /\ last.calls[1].seen # last.preH.ptr

\* C5: after Reset(p) (p = null for Reset() and for assignment from null) on
\* a handle that held q, Get() = p and the releaser has run during the call
\* once on q if q was non-null and not at all otherwise; destroying the
\* handle right after runs the releaser once on p if p is non-null.
C5_ResetPostcondition ==
  /\ last.op \in ResetOps =>
       /\ handles[last.h].ptr = last.arg
       /\ handles[last.h].live
       /\ PtrsOf(last.calls) = OnceOn(last.preH.ptr)
  /\ (last.op = "Destroy" /\ last.after.op \in ResetOps)
     => PtrsOf(last.calls) = OnceOn(last.after.arg)

\* an array handle was reset from one buffer to another and then destroyed
C5_Witness ==
  /\ arr
  /\ last.op = "Destroy"
  /\ last.after.op = "Reset"
  /\ last.after.arg # Null
  /\ Len(log) = 2

\* C6: Release() returns the pointer Get() returned before the call, leaves
\* Get() = null, runs no releaser and keeps the stored releaser; destroying
\* the handle next runs no releaser.
C6_ReleasePostcondition ==
  /\ last.op = "Release" =>
       /\ last.ret = last.preH.ptr
       /\ handles[last.h].ptr = Null
       /\ handles[last.h].d = last.preH.d
       /\ handles[last.h].live
       /\ last.calls = <<>>
  /\ (last.op = "Destroy" /\ last.after.op = "Release")
     => last.calls = <<>>

\* a handle gave up a non-null pointer through Release() and was destroyed
C6_Witness ==
  /\ last.op = "Destroy"
  /\ last.after.op = "Release"
  /\ last.after.ret # Null
  /\ last.after.ret \in client

\* C7 as stated: after a move construction or a move assignment from a
\* distinct source the source observes null, the destination observes the
\* source's prior pointer and no releaser has run during the call.
C7_MoveRunsNoReleaser ==
  (last.op \in MoveOps /\ last.h # last.r) =>
    /\ handles[last.r].ptr = Null
    /\ handles[last.h].ptr = last.preR.ptr
    /\ last.calls = <<>>

\* C7 amended: after a move construction or a move assignment from a
\* distinct source the source observes null and the destination observes the
\* source's prior pointer; move construction runs no releaser, and move
\* assignment runs the releaser exactly once, on the destination's prior
\* pointer, when that pointer is non-null and not at all when it is null.
C7_MovePostcondition ==
  (last.op \in MoveOps /\ last.h # last.r) =>
    /\ handles[last.r].ptr = Null
    /\ handles[last.r].live
    /\ handles[last.h].ptr = last.preR.ptr
    /\ handles[last.h].live
    /\ PtrsOf(last.calls) =
         IF last.op = "MoveAssign" THEN OnceOn(last.preH.ptr) ELSE <<>>

C7_Witness ==
  /\ last.op = "MoveAssign"
  /\ last.h # last.r
  /\ last.preH.ptr # Null
  /\ last.preR.ptr # Null
  /\ handles[last.h].ptr = last.preR.ptr

\* C8: destroying a handle runs the releaser if and only if the stored
\* pointer is non-null, then exactly once, with the stored pointer and by the
\* stored releaser; the releaser is never given null.
C8_Destruction ==
  /\ last.op = "Destroy" =>
       last.calls = IF last.preH.ptr # Null
                    THEN <<[d |-> last.preH.d, p |-> last.preH.ptr,
                            seen |-> last.preH.ptr]>>
                    ELSE <<>>
  /\ \A i \in 1..Len(log) : log[i] # Null

C8_Witness ==
  /\ arr
  /\ last.op = "Destroy"
  /\ last.preH.ptr # Null
  /\ Len(last.calls) = 1

\* C9: self-move-assignment leaves the stored pointer and the stored
\* releaser unchanged and runs no releaser.
C9_SelfMoveAssignNoOp ==
  (last.op = "MoveAssign" /\ last.h = last.r) =>
    /\ handles[last.h] = last.preH
    /\ last.calls = <<>>

C9_Witness ==
  /\ last.op = "MoveAssign"
  /\ last.h = last.r
  /\ last.preH.ptr # Null
  /\ handles[last.h].ptr # Null

\* C10: Swap of two distinct handles leaves each with the pointer and the
\* releaser the other held before and runs no releaser; destroying both
\* afterwards runs the releaser exactly once on each non-null pointer.
C10_Swap ==
  (last.op = "Swap" /\ last.h # last.r) =>
    /\ handles[last.h].ptr = last.preR.ptr
    /\ handles[last.h].d = last.preR.d
    /\ handles[last.r].ptr = last.preH.ptr
    /\ handles[last.r].d = last.preH.d
    /\ ~handles[TEMP].live
    /\ last.calls = <<>>
    /\ LET m2 == DtorOf(DtorOf(Cur, last.h), last.r)
           calls == PtrsOf(m2.calls)
       IN \A x \in Ptrs \cup {Null} :
            Cardinality({i \in 1..Len(calls) : calls[i] = x}) =
              IF x # Null /\ x \in {last.preH.ptr, last.preR.ptr} THEN 1 ELSE 0

\* C14: move assignment dst = move(src) from a distinct source into a
\* destination holding a non-null q releases q exactly once, with the
\* releaser dst held before the assignment; afterwards dst holds src's prior
\* pointer and src's releaser and src is empty.
C14_MoveAssignReleasesWithOwnReleaser ==
  (/\ last.op = "MoveAssign"
   /\ last.h # last.r
   /\ last.preH.ptr # Null)
  => /\ Len(last.calls) = 1
     /\ last.calls[1].p = last.preH.ptr
     /\ last.calls[1].d = last.preH.d
     /\ handles[last.h].ptr = last.preR.ptr
     /\ handles[last.h].d = last.preR.d
     /\ handles[last.r].ptr = Null
     /\ handles[last.r].live

\* destination and source both owned a resource and carried different
\* releasers
C14_Witness ==
  /\ last.op = "MoveAssign"
  /\ last.h # last.r
  /\ last.preH.ptr # Null
  /\ last.preR.ptr # Null
  /\ last.preH.d # last.preR.d
  /\ handles[last.h].d = last.preR.d

\* C16: a.Swap(a) leaves a with the pointer and the releaser it had, runs no
\* releaser, and its temporary is destroyed empty.
C16_SelfSwapNoOp ==
  (last.op = "Swap" /\ last.h = last.r) =>
    /\ handles[last.h] = last.preH
    /\ last.calls = <<>>
    /\ handles[TEMP] = Dead

C16_Witness ==
  /\ last.op = "Swap"
  /\ last.h = last.r
  /\ last.preH.ptr # Null
  /\ last.preH.d # DefaultDeleter
  /\ handles[last.h].ptr = last.preH.ptr

\* the buffer p points to has BufLen elements; its i-th element
ElemAt(p, i) == p * BufLen + i

\* C11: for an array handle holding a buffer and every index i inside it,
\* operator[](i) yields the i-th element of the held buffer, leaves the
\* handle as it was and runs no releaser.
C11_IndexYieldsElement ==
  last.op = "Index" =>
    /\ last.ret = ElemAt(last.preH.ptr, last.arg)
    /\ handles[last.h] = last.preH
    /\ last.calls = <<>>

\* C15: with a releaser that calls Reset() on the handle that invoked it,
\* every Reset, assignment from null and move assignment of either variant
\* terminates and passes each resource to the releaser at most once.
C15_ReentrantReleaserNoDoubleRelease ==
  last.op \in ResetOps \cup {"MoveAssign"} =>
    /\ ~last.overflow
    /\ \A x \in Ptrs :
         Cardinality({i \in 1..Len(last.calls) : last.calls[i].p = x}) <= 1

ConvOps == {"ConvCtor", "ConvAssign"}
\* the source element differs from the destination's only by qualification
\* the destination adds
AddsOnlyCv(src, dst) ==
  /\ ArrayPtrConvertible(src.elem, dst.elem)
  /\ src.elem # dst.elem

\* C12: in both variants the default constructor, the constructor from null
\* and the single-pointer constructor (given an argument of the stored
\* pointer type) are available exactly when the releaser type is not a
\* pointer type and is default-constructible; all three are rejected for a
\* plain function-pointer releaser.
C12_DefaultingCtorAvailability ==
  (\/ attempt.op \in {"DefaultCtor", "NullCtor"}
   \/ attempt.op = "PtrCtor" /\ attempt.u = PointerOf(attempt.dst))
  => /\ attempt.ok = (/\ ~IsPointer(attempt.dst.del)
                      /\ IsDefaultConstructible(attempt.dst.del))
     /\ attempt.dst.del = "fnptr" => ~attempt.ok

\* the single-pointer constructor of an array handle with a function-pointer
\* releaser was tried and rejected
C12_Witness ==
  /\ attempt.op = "PtrCtor"
  /\ attempt.dst.arr
  /\ attempt.dst.del = "fnptr"
  /\ attempt.u = PointerOf(attempt.dst)
  /\ ~attempt.ok

\* C13 as stated: a converting move (construction or assignment) into an
\* array handle is rejected from a scalar source, rejected from an array
\* source whose element class derives from the destination's, and accepted
\* when the source element differs only by cv-qualification the destination
\* adds.
C13_ArrayConvertingMove ==
  (attempt.op \in ConvOps /\ attempt.dst.arr) =>
    /\ ~attempt.src.arr => ~attempt.ok
    /\ (/\ attempt.src.arr
        /\ attempt.src.elem.cls = "Derived"
        /\ attempt.dst.elem.cls = "Base") => ~attempt.ok
    /\ (attempt.src.arr /\ AddsOnlyCv(attempt.src, attempt.dst)) => attempt.ok

\* C17: for every array-form source, whatever its pointer and releaser, both
\* the converting move constructor and the converting move assignment of a
\* scalar handle are unavailable.
C17_ScalarNeverTakesArray ==
  (/\ attempt.op \in ConvOps
   /\ ~attempt.dst.arr
   /\ attempt.src.arr) => ~attempt.ok

TypeOK ==
  /\ \A h \in HandleIds : handles[h].ptr \in Ptrs \cup {Null}
  /\ \A h \in HandleIds : handles[h].o \in Objects \cup {NoObject}
  /\ ~handles[TEMP].live
  /\ client \subseteq Ptrs
====
